---------------------------- MODULE Spec2Model ----------------------------
(***************************************************************************)
(* Model of projroot (src/src/main.rs): the upward walk of                 *)
(* find_project_root over the ancestors of a starting directory, the       *)
(* device check of each ancestor, the marker predicate is_project_root,    *)
(* and the two match modes Closest and Farthest.  The unix build is        *)
(* modelled: get_device is metadata(p)?.dev().                             *)
(*                                                                         *)
(* A path is the sequence of its components below "/" (the filesystem      *)
(* root is <<>>).  An Option is a sequence of length at most one:          *)
(* None == <<>>, Some(x) == <<x>>.  The filesystem is a function from      *)
(* directories to the outcome of metadata() on them and to their listing,  *)
(* and does not change during one call.                                    *)
(***************************************************************************)
EXTENDS Integers, Sequences, FiniteSets

VARIABLES
    fs,                 \* the filesystem: directory -> [meta, ls]
    starting_directory, \* argument of find_project_root
    span_file_systems,  \* argument of find_project_root
    mode,               \* argument of find_project_root
    pc,                 \* "call", "loop", "done"; "probe" for is_project_root alone
    starting_device,    \* local of find_project_root (None before line 60)
    last_candidate,     \* local of find_project_root
    iter,               \* the Ancestors iterator: the path it yields next
    result,             \* what find_project_root returned
    verdict,            \* what a lone call of is_project_root returned
    visited,            \* history: the paths the for loop has been given
    statted             \* history: the paths get_device was called on

vars == <<fs, starting_directory, span_file_systems, mode, pc, starting_device,
          last_candidate, iter, result, verdict, visited, statted>>

-----------------------------------------------------------------------------
(* Bounds and the input space *)

\* the deepest starting directory of the model
MaxDepth == 3

\* component names of the starting directory, outermost first
DirNames == <<"home", "user", "proj", "pkg", "lib", "core">>

\* st_dev values a directory can have (compared for equality only)
Devices == {1, 2}

None == <<>>
Some(x) == <<x>>

\* enum Mode
Modes == {"Closest", "Farthest"}

\* the five marker names, as the slice INDICATORS
INDICATORS == <<".git", "_darcs", ".hg", ".bzr", ".svn">>

\* names that are no markers
OtherNames == {"src", ".gitignore"}

EntryNames == {INDICATORS[i] : i \in DOMAIN INDICATORS} \cup OtherNames

\* what a name inside a directory is: nothing, a plain file, a directory, or
\* an entry whose metadata cannot be read (permission error, broken link)
Kinds == {"absent", "file", "dir", "error"}

\* a directory listing with the given plain files, directories and
\* unreadable entries
Listing(files, dirs, errs) ==
    [n \in EntryNames |->
        IF n \in files THEN "file"
        ELSE IF n \in dirs THEN "dir"
        ELSE IF n \in errs THEN "error"
        ELSE "absent"]

\* the listings a directory of the walk is drawn from: sources only (with an
\* unreadable .hg), and a git checkout
WalkListings ==
    { Listing({".gitignore"}, {"src"}, {".hg"}),
      Listing({".gitignore"}, {".git", "src"}, {}) }

\* every listing over EntryNames in which the non-markers are directories
AllListings ==
    { l \in [EntryNames -> Kinds] : \A n \in OtherNames : l[n] \in {"absent", "dir"} }

\* outcomes of metadata(p): Err (None) or Ok with the device
MetaResults == {None} \cup {Some(d) : d \in Devices}

\* the directories from p up to the filesystem root
AncestorSet(p) == { SubSeq(p, 1, k) : k \in 0..Len(p) }

-----------------------------------------------------------------------------
(* Result values *)

Ok(v) == [tag |-> "Ok", val |-> v, err |-> "none"]
Err(e) == [tag |-> "Err", val |-> None, err |-> e]
Pending == [tag |-> "Pending", val |-> None, err |-> "none"]

ErrStatStart == "could not stat starting directory"
ErrStatAncestor == "could not stat ancestor"
ErrTraversed == "traversed filesystems without finding project root"

-----------------------------------------------------------------------------
(* Pure functions of the program *)

\* parent with the filesystem root its own parent (as "/.." resolves to "/")
parent_root_is_own_parent(p) ==
    IF p = <<>> THEN Some(<<>>) ELSE Some(SubSeq(p, 1, Len(p) - 1))

\* Path::parent: None for the filesystem root
parent(p) == IF p = <<>> THEN None ELSE Some(SubSeq(p, 1, Len(p) - 1))

\* Path::join with a single component
join(p, name) == Append(p, name)

\* exists as Path::is_dir: only a directory counts
exists_is_dir(p) ==
    LET d == SubSeq(p, 1, Len(p) - 1)
        n == p[Len(p)]
    IN  /\ d \in DOMAIN fs
        /\ fs[d].ls[n] = "dir"

\* Path::exists: metadata of the entry can be read (any type of entry)
exists(p) ==
    LET d == SubSeq(p, 1, Len(p) - 1)
        n == p[Len(p)]
    IN  /\ d \in DOMAIN fs
        /\ fs[d].ls[n] \in {"file", "dir"}

\* is_project_root: INDICATORS.iter().any(|i| p.join(i).exists())
is_project_root(dir) ==
    \E i \in DOMAIN INDICATORS : exists(join(dir, INDICATORS[i]))

\* get_device (unix): Ok(metadata(p)?.dev())
get_device(p) == fs[p].meta


-----------------------------------------------------------------------------
(* The call find_project_root(starting_directory, span_file_systems, mode) *)

\* a call is about to be made: any starting directory of depth at most
\* MaxDepth, any filesystem over its ancestors, either flag, either mode
Init ==
    /\ \E n \in 0..MaxDepth : starting_directory = SubSeq(DirNames, 1, n)
    /\ fs \in [AncestorSet(starting_directory) -> [meta : MetaResults, ls : WalkListings]]
    /\ span_file_systems \in BOOLEAN
    /\ mode \in Modes
    /\ pc = "call"
    /\ starting_device = None
    /\ last_candidate = None
    /\ iter = None
    /\ result = Pending
    /\ verdict = None
    /\ visited = <<>>
    /\ statted = <<>>

Inputs == <<fs, starting_directory, span_file_systems, mode, verdict>>

\* the `return`/`bail!`/`?` of find_project_root
Return(r) ==
    /\ result' = r
    /\ pc' = "done"

\* line 60-61, the Err arm of `?`: the starting directory cannot be stat'ed
BeginStatFails ==
    /\ pc = "call"
    /\ get_device(starting_directory) = None
    /\ statted' = Append(statted, starting_directory)
    /\ Return(Err(ErrStatStart))
    /\ UNCHANGED <<Inputs, starting_device, last_candidate, iter, visited>>

\* lines 60-65: record the starting device, clear the candidate, build the
\* iterator starting_directory.ancestors()
Begin ==
    /\ pc = "call"
    /\ get_device(starting_directory) # None
    /\ statted' = Append(statted, starting_directory)
    /\ starting_device' = get_device(starting_directory)
    /\ last_candidate' = None
    /\ iter' = Some(starting_directory)
    /\ pc' = "loop"
    /\ UNCHANGED <<Inputs, result, visited>>

\* the path the for loop is given in this iteration
Current == iter[1]

\* Ancestors::next: yield the path, keep its parent for the next call
Advance ==
    /\ pc = "loop"
    /\ iter # None
    /\ visited' = Append(visited, Current)
    /\ iter' = parent(Current)

\* line 66-67: `!span_file_systems && get_device(path)...` stats the path only
\* when boundaries are checked
StatCurrent ==
    statted' = IF span_file_systems THEN statted ELSE Append(statted, Current)

\* line 66-67, the Err arm of `?`
stat_fails(path) ==
    /\ ~span_file_systems
    /\ get_device(path) = None

\* crossed without the span_file_systems test
crossed_ignores_flag(path) ==
    /\ get_device(path) # None
    /\ get_device(path) # starting_device

\* line 66-67, the condition of the `if`
crossed(path) ==
    /\ ~span_file_systems
    /\ get_device(path) # None
    /\ get_device(path) # starting_device

\* line 66-74 fall through: the device check lets the path through
same_filesystem(path) ==
    /\ ~stat_fails(path)
    /\ ~crossed(path)

\* AncestorStatFails treating the failure as a boundary: the candidate, when
\* there is one, is returned
AncestorStatFails_ReturnsCandidate ==
    /\ Advance
    /\ StatCurrent
    /\ stat_fails(Current)
    /\ IF last_candidate # None
         THEN Return(Ok(last_candidate))
         ELSE Return(Err(ErrStatAncestor))
    /\ UNCHANGED <<Inputs, starting_device, last_candidate>>

\* lines 66-67: an ancestor cannot be stat'ed while boundaries are checked
AncestorStatFails ==
    /\ Advance
    /\ StatCurrent
    /\ stat_fails(Current)
    /\ Return(Err(ErrStatAncestor))
    /\ UNCHANGED <<Inputs, starting_device, last_candidate>>

\* BoundaryCrossed reporting "not found" instead of failing
BoundaryCrossed_ReturnsNone ==
    /\ Advance
    /\ StatCurrent
    /\ crossed(Current)
    /\ Return(Ok(last_candidate))
    /\ UNCHANGED <<Inputs, starting_device, last_candidate>>

\* BoundaryCrossed failing even when a candidate is recorded
BoundaryCrossed_AlwaysBails ==
    /\ Advance
    /\ StatCurrent
    /\ crossed(Current)
    /\ Return(Err(ErrTraversed))
    /\ UNCHANGED <<Inputs, starting_device, last_candidate>>

\* lines 66-74: the ancestor is on another device
BoundaryCrossed ==
    /\ Advance
    /\ StatCurrent
    /\ crossed(Current)
    /\ IF last_candidate # None
         THEN Return(Ok(last_candidate))
         ELSE Return(Err(ErrTraversed))
    /\ UNCHANGED <<Inputs, starting_device, last_candidate>>

\* FoundClosest recording the match and walking on, as Farthest does
FoundClosest_Continues ==
    /\ Advance
    /\ StatCurrent
    /\ same_filesystem(Current)
    /\ is_project_root(Current)
    /\ mode = "Closest"
    /\ last_candidate' = Some(Current)
    /\ UNCHANGED <<Inputs, starting_device, pc, result>>

\* FoundClosest with the marker check ahead of the device check
FoundClosest_BeforeDeviceCheck ==
    /\ Advance
    /\ StatCurrent
    /\ is_project_root(Current)
    /\ mode = "Closest"
    /\ Return(Ok(Some(Current)))
    /\ UNCHANGED <<Inputs, starting_device, last_candidate>>

\* lines 75-77: a project root in Closest mode ends the walk
FoundClosest ==
    /\ Advance
    /\ StatCurrent
    /\ same_filesystem(Current)
    /\ is_project_root(Current)
    /\ mode = "Closest"
    /\ Return(Ok(Some(Current)))
    /\ UNCHANGED <<Inputs, starting_device, last_candidate>>

\* FoundFarthest keeping the first candidate (get_or_insert for replace)
FoundFarthest_KeepsFirst ==
    /\ Advance
    /\ StatCurrent
    /\ same_filesystem(Current)
    /\ is_project_root(Current)
    /\ mode # "Closest"
    /\ last_candidate' = IF last_candidate = None THEN Some(Current) ELSE last_candidate
    /\ UNCHANGED <<Inputs, starting_device, pc, result>>

\* lines 75-80: a project root in Farthest mode replaces the candidate
FoundFarthest ==
    /\ Advance
    /\ StatCurrent
    /\ same_filesystem(Current)
    /\ is_project_root(Current)
    /\ mode # "Closest"
    /\ last_candidate' = Some(Current)
    /\ UNCHANGED <<Inputs, starting_device, pc, result>>

\* lines 75, 81-82: not a project root, next ancestor
NotRoot ==
    /\ Advance
    /\ StatCurrent
    /\ same_filesystem(Current)
    /\ ~is_project_root(Current)
    /\ UNCHANGED <<Inputs, starting_device, last_candidate, pc, result>>

\* Exhausted failing when no candidate is recorded
Exhausted_Bails ==
    /\ pc = "loop"
    /\ iter = None
    /\ IF last_candidate # None
         THEN Return(Ok(last_candidate))
         ELSE Return(Err(ErrTraversed))
    /\ UNCHANGED <<Inputs, starting_device, last_candidate, iter, visited, statted>>

\* lines 83-87: the iterator is exhausted
Exhausted ==
    /\ pc = "loop"
    /\ iter = None
    /\ IF last_candidate # None
         THEN Return(Ok(last_candidate))
         ELSE Return(Ok(None))
    /\ UNCHANGED <<Inputs, starting_device, last_candidate, iter, visited, statted>>

Next ==
    \/ BeginStatFails
    \/ Begin
    \/ AncestorStatFails
    \/ BoundaryCrossed
    \/ FoundClosest
    \/ FoundFarthest
    \/ NotRoot
    \/ Exhausted

Spec == Init /\ [][Next]_vars

\* the call is one synchronous, single-threaded run: it always takes its next
\* step
FairSpec == Spec /\ WF_vars(Next)

-----------------------------------------------------------------------------
(* A lone call is_project_root(dir), as in the tests *)

\* one directory (the filesystem root) with any listing
ProbeInit ==
    /\ starting_directory = <<>>
    /\ fs \in [{<<>>} -> [meta : {Some(1)}, ls : AllListings]]
    /\ span_file_systems = TRUE
    /\ mode = "Closest"
    /\ pc = "probe"
    /\ starting_device = None
    /\ last_candidate = None
    /\ iter = None
    /\ result = Pending
    /\ verdict = None
    /\ visited = <<>>
    /\ statted = <<>>

Probe ==
    /\ pc = "probe"
    /\ verdict' = Some(is_project_root(starting_directory))
    /\ pc' = "done"
    /\ UNCHANGED <<fs, starting_directory, span_file_systems, mode, starting_device,
                   last_candidate, iter, result, visited, statted>>

ProbeNext == Probe

ProbeSpec == ProbeInit /\ [][ProbeNext]_vars

-----------------------------------------------------------------------------
(* Vocabulary of the properties *)

Depth == Len(starting_directory)

\* distances from the starting directory: 0 is the starting directory itself,
\* Depth the filesystem root
Dist == 0..Depth

\* the ancestor at distance k
Anc(k) == SubSeq(starting_directory, 1, Depth - k)

Qualifies(k) == is_project_root(Anc(k))

DevOf(k) == fs[Anc(k)].meta

\* the ancestor at distance k can be stat'ed and is on the starting device
OnStartDevice(k) == DevOf(k) # None /\ DevOf(k) = DevOf(0)

\* the walk has been given exactly the ancestors at distances 0..k, in order
VisitedUpTo(k) == visited = [j \in 1..(k + 1) |-> Anc(j - 1)]

\* the qualifying ancestor of greatest distance below n, if any
FarthestBelow(n) ==
    IF \E k \in 0..(n - 1) : Qualifies(k)
    THEN Some(Anc(CHOOSE k \in 0..(n - 1) :
                    /\ Qualifies(k)
                    /\ \A j \in (k + 1)..(n - 1) : ~Qualifies(j)))
    ELSE None

\* the walk reaches distance k with boundaries checked: the starting
\* directory and every nearer ancestor passed the device check
ReachesChecked(k) ==
    /\ ~span_file_systems
    /\ \A j \in 0..(k - 1) : OnStartDevice(j)

\* the ancestor at distance k is stat'able and on another device
OtherDevice(k) == DevOf(k) # None /\ DevOf(0) # None /\ DevOf(k) # DevOf(0)

-----------------------------------------------------------------------------
(* C1: in Closest mode, when the starting directory can be stat'ed and       *)
(* either boundaries are not checked or every ancestor up to the nearest     *)
(* qualifying one is stat'able and on the starting device, the result is     *)
(* that nearest qualifying ancestor and the walk has visited exactly the     *)
(* ancestors up to it, none farther.                                         *)
C1_ClosestReturnsNearest ==
    (pc = "done" /\ mode = "Closest" /\ DevOf(0) # None) =>
        \A k \in Dist :
            ( /\ Qualifies(k)
              /\ \A j \in 0..(k - 1) : ~Qualifies(j)
              /\ span_file_systems \/ \A j \in 0..k : OnStartDevice(j) )
            => /\ result = Ok(Some(Anc(k)))
               /\ VisitedUpTo(k)

\* the nearest qualifying ancestor is the parent, a farther one qualifies too
C1_Witness ==
    /\ pc = "done" /\ mode = "Closest" /\ ~span_file_systems
    /\ Depth >= 2
    /\ ~Qualifies(0) /\ Qualifies(1) /\ Qualifies(2)
    /\ result = Ok(Some(Anc(1)))
    /\ Len(visited) = 2

(* C2: in Farthest mode, when the starting directory can be stat'ed and      *)
(* either boundaries are not checked or every ancestor is stat'able and on   *)
(* the starting device, the candidate is at every iteration the farthest     *)
(* qualifying ancestor visited so far, the walk visits every ancestor up to  *)
(* the filesystem root, and the result is the qualifying ancestor of         *)
(* greatest distance (absence when none qualifies).                          *)
C2_FarthestReturnsOutermost ==
    ( /\ mode = "Farthest"
      /\ DevOf(0) # None
      /\ span_file_systems \/ \A j \in Dist : OnStartDevice(j) )
    => /\ pc = "loop" => last_candidate = FarthestBelow(Len(visited))
       /\ pc = "done" => /\ VisitedUpTo(Depth)
                         /\ result = Ok(FarthestBelow(Depth + 1))

\* the tree of test_find_project_root_mode: markers in the starting directory
\* and two levels up, none in between
C2_Witness ==
    /\ pc = "done" /\ mode = "Farthest" /\ ~span_file_systems
    /\ Depth >= 2
    /\ Qualifies(0) /\ ~Qualifies(1) /\ Qualifies(2)
    /\ \A j \in 3..Depth : ~Qualifies(j)
    /\ result = Ok(Some(Anc(2)))

(* C3, as claimed: with span_file_systems the device of no path is ever      *)
(* queried, the starting directory included, and the call cannot fail.       *)
C3_NeverConsulted ==
    span_file_systems => (statted = <<>> /\ result.tag # "Err")

(* C3, amended: with span_file_systems the device of the starting directory  *)
(* is queried once and the device of no other path is; the call cannot fail  *)
(* with BoundaryCrossedError nor with the StatError of an ancestor, and it   *)
(* fails with the StatError of the starting directory exactly when that      *)
(* directory cannot be stat'ed.                                              *)
C3_OnlyStartConsulted ==
    span_file_systems =>
        /\ statted \in {<<>>, <<starting_directory>>}
        /\ pc # "call" => statted = <<starting_directory>>
        /\ result.err \notin {ErrStatAncestor, ErrTraversed}
        /\ pc = "done" => (result.err = ErrStatStart <=> DevOf(0) = None)

\* a walk to the filesystem root past an unstat'able ancestor and one on
\* another device
C3_Witness ==
    /\ span_file_systems /\ pc = "done"
    /\ Depth >= 2
    /\ DevOf(1) = None /\ OtherDevice(2)
    /\ result.tag = "Ok"
    /\ Len(visited) = Depth + 1

(* C4: with boundaries checked, when the walk reaches an ancestor on another *)
(* device and neither the starting directory nor any nearer ancestor         *)
(* qualified, the call fails with BoundaryCrossedError in both modes,        *)
(* whatever markers lie at or beyond the boundary.                           *)
C4_BoundaryBeforeMarkerFails ==
    pc = "done" =>
        \A k \in Dist :
            ( /\ ReachesChecked(k)
              /\ OtherDevice(k)
              /\ \A j \in 0..(k - 1) : ~Qualifies(j) )
            => /\ result = Err(ErrTraversed)
               /\ VisitedUpTo(k)

\* the boundary directory itself holds a marker
C4_Witness ==
    /\ pc = "done" /\ ~span_file_systems
    /\ Depth >= 2
    /\ ~Qualifies(0) /\ OnStartDevice(1) /\ ~Qualifies(1)
    /\ OtherDevice(2) /\ Qualifies(2)
    /\ result = Err(ErrTraversed)

(* C5, as claimed: with span_file_systems and no qualifying ancestor the     *)
(* call returns absence, not an error.                                       *)
C5_AbsentWhenNoMarker ==
    (pc = "done" /\ span_file_systems /\ \A k \in Dist : ~Qualifies(k))
        => result = Ok(None)

(* C5, amended: with span_file_systems, no qualifying ancestor and a         *)
(* starting directory that can be stat'ed, the call returns absence in both  *)
(* modes; and absence is returned only after every ancestor up to the        *)
(* filesystem root has been visited.                                         *)
C5_AbsentWhenNoMarkerAndStartStatable ==
    /\ (pc = "done" /\ span_file_systems /\ DevOf(0) # None
            /\ \A k \in Dist : ~Qualifies(k))
        => result = Ok(None)
    /\ result = Ok(None) => VisitedUpTo(Depth)

\* absence after a walk of three directories or more
C5_Witness ==
    /\ pc = "done" /\ span_file_systems
    /\ Depth >= 2
    /\ \A k \in Dist : ~Qualifies(k)
    /\ result = Ok(None)
    /\ Len(visited) = Depth + 1

(* C6: is_project_root(d) returns true exactly when one of the names .git,   *)
(* _darcs, .hg, .bzr, .svn is a readable entry of d, a plain file or a       *)
(* directory alike; an entry that cannot be checked counts as absent, and    *)
(* the call always returns a boolean.                                        *)
C6_MarkerPredicate ==
    pc = "done" =>
        verdict = Some(\E n \in {".git", "_darcs", ".hg", ".bzr", ".svn"} :
                           fs[starting_directory].ls[n] \in {"file", "dir"})

\* the only marker is a plain file .svn, beside an unreadable .git
C6_Witness ==
    /\ pc = "done"
    /\ verdict = Some(TRUE)
    /\ fs[starting_directory].ls[".svn"] = "file"
    /\ fs[starting_directory].ls[".git"] = "error"
    /\ \A n \in {"_darcs", ".hg", ".bzr"} : fs[starting_directory].ls[n] = "absent"

(* C7: with boundaries checked in Farthest mode, when the walk reaches an    *)
(* ancestor on another device after some nearer ancestor qualified, the      *)
(* call returns the farthest qualifying ancestor nearer than the boundary;   *)
(* a marker at or beyond the boundary never replaces it.                     *)
C7_BoundaryAfterCandidateReturnsIt ==
    (pc = "done" /\ mode = "Farthest") =>
        \A k \in Dist :
            ( /\ ReachesChecked(k)
              /\ OtherDevice(k)
              /\ \E j \in 0..(k - 1) : Qualifies(j) )
            => /\ result = Ok(FarthestBelow(k))
               /\ VisitedUpTo(k)

\* two candidates before the boundary, a marker in the boundary directory
C7_Witness ==
    /\ pc = "done" /\ mode = "Farthest" /\ ~span_file_systems
    /\ Depth >= 2
    /\ Qualifies(0) /\ Qualifies(1) /\ OnStartDevice(1)
    /\ OtherDevice(2) /\ Qualifies(2)
    /\ result = Ok(Some(Anc(1)))

(* C8: a starting directory that cannot be stat'ed fails the call with       *)
(* StatError before any ancestor is visited; with boundaries checked, an     *)
(* ancestor that cannot be stat'ed fails the call with StatError when the    *)
(* walk reaches it, no farther ancestor is visited, and a candidate          *)
(* recorded before is not returned.                                          *)
C8_StatFailureFailsFast ==
    pc = "done" =>
        /\ DevOf(0) = None =>
              /\ result = Err(ErrStatStart)
              /\ visited = <<>>
        /\ \A k \in Dist :
              ( /\ ReachesChecked(k)
                /\ DevOf(0) # None
                /\ DevOf(k) = None
                /\ mode = "Closest" => \A j \in 0..(k - 1) : ~Qualifies(j) )
              => /\ result = Err(ErrStatAncestor)
                 /\ VisitedUpTo(k)

\* Farthest mode: the starting directory qualified, its parent cannot be
\* stat'ed
C8_Witness ==
    /\ pc = "done" /\ mode = "Farthest" /\ ~span_file_systems
    /\ Depth >= 2
    /\ Qualifies(0) /\ DevOf(0) # None /\ DevOf(1) = None
    /\ result = Err(ErrStatAncestor)
    /\ Len(visited) = 2

\* the walk is along the ancestor chain: the j-th path visited is the
\* ancestor at distance j-1, so each is the parent of the one before, one
\* component shorter, none is visited twice and at most Depth+1 are visited;
\* and a call that has ended has one outcome
C9_Bounded ==
    /\ Len(visited) <= Depth + 1
    /\ \A j \in 1..Len(visited) : visited[j] = Anc(j - 1)
    /\ pc = "done" <=> result # Pending
    /\ pc = "done" =>
          \/ result = Ok(None)
          \/ \E k \in Dist : result = Ok(Some(Anc(k)))
          \/ result \in {Err(ErrStatStart), Err(ErrStatAncestor), Err(ErrTraversed)}

(* C9: every call terminates: the walk visits the ancestors in order of      *)
(* strictly decreasing depth, each at most once and at most Depth+1 in all,  *)
(* and the call eventually ends with exactly one outcome, which then stays.  *)
C9_Terminates ==
    /\ []C9_Bounded
    /\ [][pc = "done" => result' = result]_vars
    /\ <>(pc = "done")

\* a call that ended after visiting every ancestor of a directory of depth 2
\* or more
C9_Witness ==
    /\ pc = "done"
    /\ Depth >= 2
    /\ Len(visited) = Depth + 1

(* C10: a returned path is an ancestor of the starting directory (itself     *)
(* included) that satisfies the marker predicate; and with boundaries        *)
(* checked, it and every ancestor nearer than it are stat'able and on the    *)
(* starting device.                                                          *)
C10_ResultIsSound ==
    (pc = "done" /\ result.tag = "Ok" /\ result.val # None) =>
        \E k \in Dist :
            /\ result.val = Some(Anc(k))
            /\ Qualifies(k)
            /\ ~span_file_systems => \A j \in 0..k : OnStartDevice(j)

\* Closest mode returns the starting directory's parent while a marker lies
\* on another device above it
C10_Witness ==
    /\ pc = "done" /\ ~span_file_systems /\ mode = "Closest"
    /\ Depth >= 2
    /\ result = Ok(Some(Anc(1)))
    /\ OtherDevice(2) /\ Qualifies(2)

=============================================================================
